---- MODULE Spec2Model ----
(***************************************************************************)
(* Model of the ee192 V-REP car controller: the Car steering actuator and  *)
(* the Tripwire edge detector of carInterface.py, and the run loop of      *)
(* controller.py (control tick, timeout, lap counting, stop decision).     *)
(*                                                                         *)
(* Numbers are exact fixed-point integers: an angle is a count of 1/160    *)
(* degree, a time is a count of milliseconds, a line position is a count   *)
(* of pixels, a lateral error is a count of 1/1280 m (a pixel of the line  *)
(* camera is 0.7/128 m = 7/1280 m wide).  With these units every product   *)
(* and quotient the code computes on the modelled inputs is an integer.    *)
(***************************************************************************)
EXTENDS Integers, Sequences, FiniteSets, TLC

VARIABLES
  steering_state,      \* Car.steering_state
  steering_limit,      \* Car.steering_limit
  steering_slew_rate,  \* Car.steering_slew_rate
  wheels,              \* the angle last dispatched to the wheels and the target
                       \* positions of the two steering joints
  last,                \* the last call made on the Car, its locals and result
  last_state,          \* Tripwire.last_state of a tripwire polled on its own
  levels,              \* the proximity levels that tripwire has read, in order
  events,              \* the values its check_tripped has returned, in order
  laps,                \* args.laps
  maxtime,             \* args.maxtime
  csv_arg,             \* whether args.csvfile names a file
  sim_start_time,      \* sim_start_time
  last_sim_time,       \* assignment.last_sim_time
  old_lat_err,         \* assignment.old_lat_err
  int_err,             \* assignment.int_err
  finish_wire,         \* finish_wire.last_state
  stopping_wire,       \* stopping_wire.last_state
  done,                \* done
  completed_laps,      \* completed_laps
  csvfile,             \* csvfile: None or the current SimpleCsvDictWriter
  pc,                  \* where the main program is: in the loop, or past it
  tick,                \* what the last loop iteration read and which branches it took
  matched,             \* how many iterations with an edge there were, while they
                       \* follow Scenario; -1 once they departed from it
  control,             \* the last control_loop call made on its own: its gains,
                       \* inputs, locals and result
  raw,                 \* the image the vision sensor returned last
  image,               \* what get_line_camera_image made of it
  line_err,            \* what get_line_camera_error returned for that:
                       \* num/den pixels
  cam_lat_err,         \* the lateral error control_loop makes of that: num/den
                       \* lateral units
  files,               \* of each lap's csv file: unopened, open or closed
  assertion,           \* whether a close() has failed its assertion
  csv_writer,          \* a SimpleCsvDictWriter used on its own: its fields
  out,                 \* the lines written to its file, in order
  wlast,               \* the last call made on it
  oneLoop,             \* carTest-slew20-line.py: args.oneLoop, as a truth value
  iterations,          \* args.iterations
  car_test_last_sim_time, \* its assignment.last_sim_time
  car_old_lat_err,     \* car.old_lat_err: not set, or <<its value>>
  car_int_err,         \* car.int_err: not set, or <<its value>>
  keepGoing,           \* keepGoing
  count,               \* count
  oldCrossed,          \* oldCrossed
  loop_i,              \* i of the for loop
  test_pc,             \* where that program is: not run, in a loop, past it,
                       \* or ended by an exception
  iter                 \* what its last loop iteration read and did, and the
                       \* flags control_loop has returned

carVars == <<steering_state, steering_limit, steering_slew_rate, wheels, last>>
twVars == <<last_state, levels, events>>
runVars == <<laps, maxtime, csv_arg, sim_start_time, last_sim_time, old_lat_err,
             int_err, finish_wire, stopping_wire, done, completed_laps, csvfile,
             pc, tick, matched>>
ctlVars == <<control>>
camVars == <<raw, image, line_err, cam_lat_err>>
fileVars == <<files, assertion>>
writerVars == <<csv_writer, out, wlast>>
testVars == <<oneLoop, iterations, car_test_last_sim_time, car_old_lat_err,
              car_int_err, keepGoing, count, oldCrossed, loop_i, test_pc, iter>>
vars == <<carVars, twVars, runVars, ctlVars, camVars, fileVars, writerVars,
          testVars>>

----------------------------------------------------------------------------
\* Units and helpers

\* n degrees, in angle units of 1/160 degree
Deg(n) == n * 160

\* n degrees per second, in angle units per millisecond
DegPerSec(n) == Deg(n) \div 1000

Min(a, b) == IF b < a THEN b ELSE a
Max(a, b) == IF b > a THEN b ELSE a
Abs(a) == IF a < 0 THEN -a ELSE a

----------------------------------------------------------------------------
\* Bounds of the model

\* commanded angles are multiples of 15 degrees up to MaxCmd * 15 degrees
MaxCmd == 3
\* the shortest nonzero dt tried, forwards and backwards, in milliseconds
SmallDt == 1
\* number of polls of the tripwire polled on its own
MaxPolls == 6

AngleCmds == {Deg(15) * k : k \in (-MaxCmd)..MaxCmd}

----------------------------------------------------------------------------
\* carInterface.py: Car

\* the validated steering limit, 30 degrees
ValidLimit == Deg(30)
\* the validated slew rate, 60/0.016 degrees per second
ValidSlewRate == DegPerSec((60 * 1000) \div 16)
\* the constructor's default slew rate, 60/0.16 degrees per second
DefaultSlewRate == DegPerSec((60 * 100) \div 16)
\* dt above this many milliseconds is not trusted
HighDt == 11
\* the dt used in its place
NominalDt == 10

\* the dts tried: backwards, none, short, long, at the threshold, above it, stalled
CarDts == {-2 * NominalDt, -SmallDt, 0, SmallDt, 8, HighDt, HighDt + 1, 5 * NominalDt}

\* values a caller may pass for, or assign to, the limit and the slew rate
LimitValues == {ValidLimit, Deg(45)}
SlewValues == {ValidSlewRate, DefaultSlewRate}

\* Car.__init__: the fields after construction with the given arguments
CarInit(limit_arg, slew_arg) ==
  [steering_limit |-> IF limit_arg # ValidLimit THEN ValidLimit ELSE limit_arg,
   steering_slew_rate |-> IF slew_arg # ValidSlewRate THEN ValidSlewRate ELSE slew_arg,
   steering_state |-> 0]

\* a set_steering that trusts any dt
SteeringDtTrusted(dt) == dt

\* Car.set_steering, lines 182-184: the dt the call goes on with
SteeringDt(dt) == IF dt > HighDt THEN NominalDt ELSE dt

\* a set_steering that takes the limit field as it finds it
SteeringLimitTrusted(limit) == limit

\* Car.set_steering, lines 185-187: the limit the call goes on with
SteeringLimit(limit) == IF limit # ValidLimit THEN ValidLimit ELSE limit

\* Car.set_steering, lines 188-190: the slew rate the call goes on with
SteeringSlewRate(slew) == IF slew # ValidSlewRate THEN ValidSlewRate ELSE slew

\* a rate limiting that always steps by the whole allowance towards the command
SlewLimitedFullStep(angle_cmd, state, max_angle_change) ==
  IF angle_cmd >= state THEN state + max_angle_change
  ELSE state - max_angle_change

\* a rate limiting that bounds the change on one side only
SlewLimitedUpOnly(angle_cmd, state, max_angle_change) ==
  Min(angle_cmd, state + max_angle_change)

\* Car.set_steering, lines 193-194: the rate limiting
SlewLimited(angle_cmd, state, max_angle_change) ==
  Max(Min(angle_cmd, state + max_angle_change), state - max_angle_change)

\* an amplitude limiting that bounds the angle on one side only
AmplitudeLimitedUpOnly(angle, limit) == Min(angle, limit)

\* Car.set_steering, line 195: the amplitude limiting
AmplitudeLimited(angle, limit) == Max(Min(angle, limit), -limit)

\* Car.get_steering_angle, lines 126-129
GetSteeringAngle == steering_state

\* a joint target position: either exactly 0 or
\* math.atan(1 / (w * wheelbase_width + 1/math.tan(math.radians(tan_of))))
\* with w = -1 or 1; the value of the expression is not computed
Exactly0 == [atan |-> FALSE, w |-> 0, tan_of |-> 0]
AckermannAngle(w, angle_deg) == [atan |-> TRUE, w |-> w, tan_of |-> angle_deg]

\* an Ackermann mapping without the case of a straight steering
SetSteeringWheelsUnguarded(angle_deg) ==
  [angle_deg |-> angle_deg,
   left |-> AckermannAngle(-1, angle_deg),
   right |-> AckermannAngle(1, angle_deg)]

\* Car.__set_steering, lines 158-167: what is dispatched to the wheels
SetSteeringWheels(angle_deg) ==
  IF angle_deg # 0
  THEN [angle_deg |-> angle_deg,
        left |-> AckermannAngle(-1, angle_deg),
        right |-> AckermannAngle(1, angle_deg)]
  ELSE [angle_deg |-> angle_deg, left |-> Exactly0, right |-> Exactly0]

\* Car.__init__, lines 57-58: both joints are sent to 0
InitWheels == [angle_deg |-> 0, left |-> Exactly0, right |-> Exactly0]

\* Car.set_steering: its locals and the fields it leaves, from the fields it
\* finds, the command and dt
SetSteeringCall(state, limit_in, slew_in, angle_cmd, dt_arg) ==
  LET dt == SteeringDt(dt_arg)
      limit == SteeringLimit(limit_in)
      slew == SteeringSlewRate(slew_in)
      max_angle_change == dt * slew
      angle == AmplitudeLimited(SlewLimited(angle_cmd, state, max_angle_change), limit)
  IN [angle_cmd |-> angle_cmd, dt_arg |-> dt_arg, before |-> state,
      limit_in |-> limit_in, slew_in |-> slew_in,
      dt |-> dt, steering_limit |-> limit, steering_slew_rate |-> slew,
      max_angle_change |-> max_angle_change,
      ret |-> angle]

\* Car.set_steering_fast: prints, then returns set_steering(angle_cmd, dt)
SetSteeringFastCall(state, limit_in, slew_in, angle_cmd, dt_arg) ==
  SetSteeringCall(state, limit_in, slew_in, angle_cmd, dt_arg)

NoCall ==
  [op |-> "none", angle_cmd |-> 0, dt_arg |-> 0, before |-> 0,
   limit_in |-> ValidLimit, slew_in |-> ValidSlewRate,
   dt |-> 0, steering_limit |-> ValidLimit, steering_slew_rate |-> ValidSlewRate,
   max_angle_change |-> 0, ret |-> 0]

Logged(op, call) == [x \in {"op"} \cup DOMAIN call |-> IF x = "op" THEN op ELSE call[x]]

\* the Car state and call record after Car(limit_arg, slew_arg)
Constructed(limit_arg, slew_arg) ==
  LET c == CarInit(limit_arg, slew_arg)
  IN /\ steering_state = c.steering_state
     /\ steering_limit = c.steering_limit
     /\ steering_slew_rate = c.steering_slew_rate
     /\ wheels = InitWheels
     /\ last = NoCall

InitCar ==
  \E limit_arg \in LimitValues, slew_arg \in SlewValues :
    Constructed(limit_arg, slew_arg)

\* car.set_steering(angle_cmd, dt)
SetSteering ==
  \E angle_cmd \in AngleCmds, dt \in CarDts :
    LET c == SetSteeringCall(steering_state, steering_limit, steering_slew_rate,
                             angle_cmd, dt)
    IN /\ steering_state' = c.ret
       /\ wheels' = SetSteeringWheels(c.ret)
       /\ steering_limit' = c.steering_limit
       /\ steering_slew_rate' = c.steering_slew_rate
       /\ last' = Logged("set_steering", c)
       /\ UNCHANGED <<twVars, runVars, ctlVars, camVars, fileVars, writerVars, testVars>>

\* car.set_steering_fast(angle_cmd, dt)
SetSteeringFast ==
  \E angle_cmd \in AngleCmds, dt \in CarDts :
    LET c == SetSteeringFastCall(steering_state, steering_limit, steering_slew_rate,
                                 angle_cmd, dt)
    IN /\ steering_state' = c.ret
       /\ wheels' = SetSteeringWheels(c.ret)
       /\ steering_limit' = c.steering_limit
       /\ steering_slew_rate' = c.steering_slew_rate
       /\ last' = Logged("set_steering_fast", c)
       /\ UNCHANGED <<twVars, runVars, ctlVars, camVars, fileVars, writerVars, testVars>>

\* Car.set_steering_limit: the limit field after the call
SetSteeringLimitField(limit, steering_limit_arg) == limit

\* car.set_steering_limit(steering_limit): prints a warning, assigns nothing
SetSteeringLimit ==
  \E limit_arg \in LimitValues :
    /\ steering_limit' = SetSteeringLimitField(steering_limit, limit_arg)
    /\ last' = [NoCall EXCEPT !.op = "set_steering_limit", !.limit_in = limit_arg]
    /\ UNCHANGED <<steering_state, steering_slew_rate, wheels>>
    /\ UNCHANGED <<twVars, runVars, ctlVars, camVars, fileVars, writerVars, testVars>>

\* a caller assigns car.steering_limit and car.steering_slew_rate
AssignFields ==
  \E limit \in LimitValues, slew \in SlewValues :
    /\ steering_limit' = limit
    /\ steering_slew_rate' = slew
    /\ last' = [NoCall EXCEPT !.op = "assign"]
    /\ UNCHANGED <<steering_state, wheels>>
    /\ UNCHANGED <<twVars, runVars, ctlVars, camVars, fileVars, writerVars, testVars>>

NextCar == SetSteering \/ SetSteeringFast \/ SetSteeringLimit \/ AssignFields

\* the dts above 0 among those tried
HoldDts == {dt \in CarDts : dt > 0}

\* car.set_steering(angle_cmd, dt) once more with the command of the last
\* call (0 if there was none) and a dt above 0
HoldSteering ==
  \E dt \in HoldDts :
    LET c == SetSteeringCall(steering_state, steering_limit, steering_slew_rate,
                             last.angle_cmd, dt)
    IN /\ steering_state' = c.ret
       /\ wheels' = SetSteeringWheels(c.ret)
       /\ steering_limit' = c.steering_limit
       /\ steering_slew_rate' = c.steering_slew_rate
       /\ last' = Logged("hold", c)
       /\ UNCHANGED <<twVars, runVars, ctlVars, camVars, fileVars, writerVars, testVars>>

\* car.set_steering calls with any command and dt, as long as the caller has
\* not begun to hold a command
SteerFreely ==
  /\ last.op # "hold"
  /\ SetSteering

NextHolding == SteerFreely \/ HoldSteering

----------------------------------------------------------------------------
\* carInterface.py: Tripwire

\* a check_tripped that reports the level, not the rising edge
CheckTrippedLevel(state, in_proximity) ==
  [tripped |-> in_proximity, last_state |-> in_proximity]

\* Tripwire.check_tripped: the value returned and the state left
CheckTripped(state, in_proximity) ==
  [tripped |-> (~state /\ in_proximity), last_state |-> in_proximity]

InitTripwire ==
  /\ last_state = FALSE
  /\ levels = <<>>
  /\ events = <<>>

\* wire.check_tripped() with the sensor reading in_proximity
Poll ==
  /\ Len(levels) < MaxPolls
  /\ \E in_proximity \in BOOLEAN :
       LET c == CheckTripped(last_state, in_proximity)
       IN /\ last_state' = c.last_state
          /\ levels' = Append(levels, in_proximity)
          /\ events' = Append(events, c.tripped)
  /\ UNCHANGED <<carVars, runVars, ctlVars, camVars, fileVars, writerVars, testVars>>

NextTripwire == Poll

----------------------------------------------------------------------------
\* simpleCsvDict.py: SimpleCsvDictWriter, and the csvfile variable that holds one

\* csvfile = None
NoWriter == [none |-> TRUE, lap |-> 0, file |-> FALSE, csv |-> FALSE]

\* SimpleCsvDictWriter(args.csvfile + '_lap' + str(lap) + '.csv'): the file is
\* open, no DictWriter yet
NewWriter(lap) == [none |-> FALSE, lap |-> lap, file |-> TRUE, csv |-> FALSE]

\* SimpleCsvDictWriter.writerow on an open writer: the first row creates the
\* DictWriter and writes the header
WriteRow(w) == [w EXCEPT !.csv = TRUE]

\* SimpleCsvDictWriter.close on an open writer
CloseWriter(w) == [w EXCEPT !.file = FALSE, !.csv = FALSE]

----------------------------------------------------------------------------
\* controller.py: SimulationAssignment.control_loop

\* the steering gains: degrees per metre, per metre/second, per metre second
Kp == 200
Kd == 20
Ki == 0

\* the gains of controller.py, and those of carTest-slew20-line.py
ControllerGains == [kp |-> Kp, kd |-> Kd, ki |-> Ki]
CarTestGains == [kp |-> 200, kd |-> 0, ki |-> 0]

\* gain * (num/den lateral units), a number of degrees, in angle units
GainTimes(gain, num, den) == (gain * num * Deg(1)) \div (1280 * den)

\* a conversion that takes the field of view for 64 pixels
LatErrOverHalfWidth(line0_err) == -14 * line0_err

\* line 100: the lateral error of a line position error in pixels
LatErr(line0_err) == -7 * line0_err

\* a derivative that is guarded against dt = 0 only
LatVelNonzeroDt(lat_err, old, dt) ==
  IF dt # 0 THEN ((lat_err - old) * 1000) \div dt ELSE 0

\* lines 102-105: lat_vel, in lateral units per second (dt in milliseconds)
LatVel(lat_err, old, dt) ==
  IF dt > 0 THEN ((lat_err - old) * 1000) \div dt ELSE 0

\* lines 102-105, times kd: kd * lat_vel, in angle units
KdLatVel(lat_err, old, dt) == GainTimes(Kd, LatVel(lat_err, old, dt), 1)

\* an integral error with anti-windup, held within 1 m ms
IntErrClamped(int, dt, lat_err) ==
  Max(Min(int + dt * lat_err, 1280), -1280)

\* line 109: the integral error, in lateral units times milliseconds
IntErr(int, dt, lat_err) == int + dt * lat_err

\* a steering law with the sign of the derivative term turned
SteerAngleDerivativeAdded(g, lat_err, lat_vel, int) ==
  -GainTimes(g.kp, lat_err, 1) + GainTimes(g.kd, lat_vel, 1) - GainTimes(g.ki, int, 1000)

\* line 115 with its locals kp, kd, ki: the steering angle asked for
SteerAngle(g, lat_err, lat_vel, int) ==
  -GainTimes(g.kp, lat_err, 1) - GainTimes(g.kd, lat_vel, 1) - GainTimes(g.ki, int, 1000)

\* line 115: the steering angle asked for
TargetSteerAngle(lat_err, old, dt, int) ==
  SteerAngle(ControllerGains, lat_err, LatVel(lat_err, old, dt), int)

\* control_loop: the state it leaves, from the simulation time and the line
\* position error of the scan it reads
ControlLoop(sim_time, line0_err) ==
  LET dt == sim_time - last_sim_time
      lat_err == LatErr(line0_err)
      int == IntErr(int_err, dt, lat_err)
      target == TargetSteerAngle(lat_err, old_lat_err, dt, int)
      c == SetSteeringCall(steering_state, steering_limit, steering_slew_rate,
                           target, dt)
  IN [last_sim_time |-> sim_time, old_lat_err |-> lat_err, int_err |-> int,
      target_steer_angle |-> target, steer |-> c,
      csvfile |-> IF csvfile.none THEN csvfile ELSE WriteRow(csvfile)]

\* the largest line position error of a scan, in pixels
MaxLineErr == 8

\* bounds of the control loop called on its own
\* the number of calls
MaxTicks == 3

\* the lateral errors tried: that of the largest line position error, none,
\* and 0.1 m (the line 128/7 pixels to one side)
ControlLatErrs == {LatErr(MaxLineErr), 0, 128}
\* the dts tried: the simulation time read is earlier, the same, later
ControlDts == {-NominalDt, 0, NominalDt}
GainSets == {ControllerGains, CarTestGains}

NoControl ==
  [n |-> 0, gains |-> ControllerGains, lat_err |-> 0, old |-> 0, dt |-> 0,
   int_before |-> 0, lat_vel |-> 0, target |-> 0]

\* lines 81-83 and 100-117 of control_loop, with the gains g at lines 112-114:
\* the simulation has advanced by dt and the scan gives the lateral error lat_err
ControlTick ==
  /\ control.n < MaxTicks
  /\ \E g \in GainSets, lat_err \in ControlLatErrs, dt \in ControlDts :
       LET lat_vel == LatVel(lat_err, old_lat_err, dt)
           int == IntErr(int_err, dt, lat_err)
           target == SteerAngle(g, lat_err, lat_vel, int)
           c == SetSteeringCall(steering_state, steering_limit,
                                steering_slew_rate, target, dt)
       IN /\ last_sim_time' = last_sim_time + dt
          /\ old_lat_err' = lat_err
          /\ int_err' = int
          /\ steering_state' = c.ret
          /\ wheels' = SetSteeringWheels(c.ret)
          /\ steering_limit' = c.steering_limit
          /\ steering_slew_rate' = c.steering_slew_rate
          /\ control' = [n |-> control.n + 1, gains |-> g, lat_err |-> lat_err,
                     old |-> old_lat_err, dt |-> dt, int_before |-> int_err,
                     lat_vel |-> lat_vel, target |-> target]
          /\ UNCHANGED <<laps, maxtime, csv_arg, sim_start_time, finish_wire,
                         stopping_wire, done, completed_laps, csvfile, pc, tick,
                         matched, last>>
          /\ UNCHANGED <<twVars, camVars, fileVars, writerVars, testVars>>

NextControl == ControlTick

----------------------------------------------------------------------------
\* The line camera (carInterface.py get_line_camera_image, controller.py
\* get_line_camera_error).  A scan is a sequence of samples; index i of the
\* code is position i + 1 of the sequence.

\* bound: the longest scan tried
MaxScan == 4

\* the samples of a scan of the line camera
ScanWidth == 128

\* a stretch of dark samples that fills a scan up to its width
DarkStretch == [i \in 1..(ScanWidth - MaxScan) |-> 0]

\* controller.py line 60
IntensityThreshold == 192
\* controller.py line 70: the index taken as the centre of the scan
ScanCentre == 63

\* samples the sensor returns: bytes read as signed (128, 192 and 193 come as
\* -128, -64 and -63) and bytes read as unsigned
RawSamples == {-128, -64, -63, 0, 192, 255}

\* an undoing of the two's complement that also takes 0 for negative
UndoTwosComplementOfZero(intensity) ==
  IF intensity <= 0 THEN 256 + intensity ELSE intensity

\* carInterface.py lines 141-142
UndoTwosComplement(intensity) ==
  IF intensity < 0 THEN 256 + intensity ELSE intensity

\* carInterface.py lines 138-143, on the image the sensor returned
GetLineCameraImage(sensor_image) ==
  [i \in DOMAIN sensor_image |-> UndoTwosComplement(sensor_image[i])]

\* a line detector that takes the threshold itself for bright
IsLineFromThreshold(intensity) == intensity >= IntensityThreshold

\* controller.py line 65
IsLine(intensity) == intensity > IntensityThreshold

\* controller.py lines 62-67: what the loop adds to weighted_sum and
\* element_sum over the indices lo..hi; the range is halved to keep the
\* evaluation shallow, the sums being the same in any order
RECURSIVE LineSumsOver(_, _, _)
LineSumsOver(img, lo, hi) ==
  IF lo > hi THEN [weighted_sum |-> 0, element_sum |-> 0]
  ELSE IF lo = hi
  THEN IF IsLine(img[lo + 1]) THEN [weighted_sum |-> lo, element_sum |-> 1]
       ELSE [weighted_sum |-> 0, element_sum |-> 0]
  ELSE LET mid == (lo + hi) \div 2
           a == LineSumsOver(img, lo, mid)
           b == LineSumsOver(img, mid + 1, hi)
       IN [weighted_sum |-> a.weighted_sum + b.weighted_sum,
           element_sum |-> a.element_sum + b.element_sum]

\* controller.py lines 62-67: the sums after the loop
LineSums(img) == LineSumsOver(img, 0, Len(img) - 1)

\* a centroid computed whatever the number of bright samples
GetLineCameraErrorUnguarded(img) ==
  LET sums == LineSums(img)
  IN [num |-> sums.weighted_sum - ScanCentre * sums.element_sum,
      den |-> sums.element_sum]

\* controller.py lines 60-70: the value returned is num/den
GetLineCameraError(img) ==
  LET sums == LineSums(img)
  IN IF sums.element_sum = 0 THEN [num |-> 0, den |-> 1]
     ELSE [num |-> sums.weighted_sum - ScanCentre * sums.element_sum,
           den |-> sums.element_sum]

\* no scan has been read
NoScan ==
  /\ raw = <<>>
  /\ image = <<>>
  /\ line_err = [read |-> FALSE, num |-> 0, den |-> 1]
  /\ cam_lat_err = [num |-> 0, den |-> 1]

\* controller.py lines 96, 98 and 100: the sensor returns the scan it
\* returned last, or one a sample longer, or (at first) a dark stretch; the
\* line position error is taken of it and made a lateral error
ReadScan ==
  \E sensor_image \in {raw}
        \cup {Append(raw, s) :
                s \in IF Len(raw) < MaxScan
                         \/ (Len(raw) >= Len(DarkStretch) /\ Len(raw) < ScanWidth)
                      THEN RawSamples ELSE {}}
        \cup (IF raw = <<>> THEN {DarkStretch} ELSE {}) :
    /\ raw' = sensor_image
    /\ \E img \in {GetLineCameraImage(sensor_image)} :
         /\ image' = img
         /\ \E e \in {GetLineCameraError(img)} :
              /\ line_err' = [read |-> TRUE, num |-> e.num, den |-> e.den]
              /\ cam_lat_err' = [num |-> LatErr(e.num), den |-> e.den]
    /\ UNCHANGED <<carVars, twVars, runVars, ctlVars, fileVars, writerVars, testVars>>

NextCamera == ReadScan

----------------------------------------------------------------------------
\* simpleCsvDict.py: a SimpleCsvDictWriter used on its own.  file and csv say
\* whether the field is not None; fieldnames is <<>> for None and <<S>> for
\* the set S; a line of the file is a header or a data row, with its field
\* names.

\* bound: the data rows written to one file
MaxRows == 3

\* the key sets of the rows tried: those of control_loop's row, of a row with
\* a field less, of a row with another field, and of an empty row
RowKeys ==
  {{"t", "x", "y", "linescan", "line_pos", "speed", "lat_err", "steer_angle"},
   {},
   {"t", "x", "y", "linescan", "line_pos", "speed", "lat_err"},
   {"t", "x", "y", "linescan", "line_pos", "speed", "lat_err", "lap"}}

\* SimpleCsvDictWriter.__init__, lines 7-13
NewCsvDictWriter == [file |-> TRUE, csv |-> FALSE, fieldnames |-> <<>>]

\* a writerow that does not look whether the file is there
WriterowUnasserted(w, lines, row_keys) ==
  IF w.csv /\ <<row_keys>> # w.fieldnames
  THEN [writer |-> w, out |-> lines, failed |-> TRUE]
  ELSE IF w.csv
  THEN [writer |-> w,
        out |-> Append(lines, [header |-> FALSE, keys |-> row_keys]),
        failed |-> FALSE]
  ELSE [writer |-> [w EXCEPT !.fieldnames = <<row_keys>>, !.csv = TRUE],
        out |-> lines \o <<[header |-> TRUE, keys |-> row_keys],
                           [header |-> FALSE, keys |-> row_keys]>>,
        failed |-> FALSE]

\* a writerow that takes whatever fields a row has
WriterowAnyFields(w, lines, row_keys) ==
  IF ~w.file
  THEN [writer |-> w, out |-> lines, failed |-> TRUE]
  ELSE IF w.csv
  THEN [writer |-> w,
        out |-> Append(lines, [header |-> FALSE, keys |-> row_keys]),
        failed |-> FALSE]
  ELSE [writer |-> [w EXCEPT !.fieldnames = <<row_keys>>, !.csv = TRUE],
        out |-> lines \o <<[header |-> TRUE, keys |-> row_keys],
                           [header |-> FALSE, keys |-> row_keys]>>,
        failed |-> FALSE]

\* SimpleCsvDictWriter.writerow, lines 15-25: the writer and the file after
\* it, and whether an assertion failed
Writerow(w, lines, row_keys) ==
  IF ~w.file
  THEN [writer |-> w, out |-> lines, failed |-> TRUE]
  ELSE IF w.csv /\ <<row_keys>> # w.fieldnames
  THEN [writer |-> w, out |-> lines, failed |-> TRUE]
  ELSE IF w.csv
  THEN [writer |-> w,
        out |-> Append(lines, [header |-> FALSE, keys |-> row_keys]),
        failed |-> FALSE]
  ELSE [writer |-> [w EXCEPT !.fieldnames = <<row_keys>>, !.csv = TRUE],
        out |-> lines \o <<[header |-> TRUE, keys |-> row_keys],
                           [header |-> FALSE, keys |-> row_keys]>>,
        failed |-> FALSE]

\* SimpleCsvDictWriter.close, lines 27-32
Close(w, lines) ==
  IF ~w.file
  THEN [writer |-> w, out |-> lines, failed |-> TRUE]
  ELSE [writer |-> [w EXCEPT !.file = FALSE, !.csv = FALSE],
        out |-> lines, failed |-> FALSE]

NoWriterCall ==
  [op |-> "none", keys |-> {}, failed |-> FALSE, closed_before |-> FALSE,
   fieldnames_before |-> <<>>, lines_before |-> 0]

\* the writer has been made
Opened ==
  /\ csv_writer = NewCsvDictWriter
  /\ out = <<>>
  /\ wlast = NoWriterCall

\* the number of data rows among lines
Rows(lines) == Cardinality({i \in 1..Len(lines) : ~lines[i].header})

\* w.writerow(row), for a row with the keys row_keys
CallWriterow ==
  /\ \E row_keys \in RowKeys :
       \E r \in {Writerow(csv_writer, out, row_keys)} :
         /\ Rows(r.out) <= MaxRows
         /\ csv_writer' = r.writer
         /\ out' = r.out
         /\ wlast' = [op |-> "writerow", keys |-> row_keys, failed |-> r.failed,
                      closed_before |-> ~csv_writer.file,
                      fieldnames_before |-> IF csv_writer.csv THEN csv_writer.fieldnames
                                            ELSE <<>>,
                      lines_before |-> Len(out)]
  /\ UNCHANGED <<carVars, twVars, runVars, ctlVars, camVars, fileVars, testVars>>

\* w.close()
CallClose ==
  /\ \E r \in {Close(csv_writer, out)} :
       /\ csv_writer' = r.writer
       /\ out' = r.out
       /\ wlast' = [op |-> "close", keys |-> {}, failed |-> r.failed,
                    closed_before |-> ~csv_writer.file,
                    fieldnames_before |-> IF csv_writer.csv THEN csv_writer.fieldnames
                                          ELSE <<>>,
                    lines_before |-> Len(out)]
  /\ UNCHANGED <<carVars, twVars, runVars, ctlVars, camVars, fileVars, testVars>>

NextWriter == CallWriterow \/ CallClose

----------------------------------------------------------------------------
\* controller.py: the main program

\* more bounds of the model
\* the largest args.laps tried
MaxTarget == 2
\* finish line crossings are counted up to this many completed laps
MaxLaps == 2
\* args.maxtime, in milliseconds
MaxRunTime == 20

TargetLaps == 0..MaxTarget
StartTimes == {0, NominalDt, 2 * NominalDt}
RunDts == {0, NominalDt, 2 * NominalDt}
LineErrs == {0, MaxLineErr}

\* the laps a csv file may be opened for
LapFiles == 0..(MaxLaps + 1)

NoTick == [finish_tripped |-> FALSE, stop_tripped |-> FALSE,
           timed_out |-> FALSE, stopped |-> FALSE, lat_err |-> 0,
           finish_level |-> FALSE, stop_level |-> FALSE]

\* carTest-slew20-line.py, the controller with one tripwire: its state

\* an attribute that no assignment has set; one that is set to v is <<v>>
Unset == <<>>

\* what an iteration leaves when none has run: the number of iterations, the
\* attribute whose read raised an error in the last, its locals dt, lat_err
\* and crossed, whether its control_loop returned, the flag control_loop
\* returned last and the low-to-high transitions of the flags returned
NoIteration ==
  [n |-> 0, raised |-> "none", dt |-> 0, lat_err |-> 0, returned |-> FALSE,
   crossed |-> FALSE, flag |-> FALSE, transitions |-> 0]

\* that program is not run
IdleCarTest ==
  /\ oneLoop = TRUE
  /\ iterations = 0
  /\ car_test_last_sim_time = 0
  /\ car_old_lat_err = Unset
  /\ car_int_err = Unset
  /\ keepGoing = TRUE
  /\ count = 0
  /\ oldCrossed = FALSE
  /\ loop_i = 0
  /\ test_pc = "idle"
  /\ iter = NoIteration

\* the main program up to the loop, lines 189-212
InitRun ==
  /\ laps \in TargetLaps
  /\ maxtime = MaxRunTime
  /\ csv_arg \in BOOLEAN
  /\ sim_start_time \in StartTimes
  /\ last_sim_time = sim_start_time
  /\ old_lat_err = 0
  /\ int_err = 0
  /\ finish_wire = FALSE
  /\ stopping_wire = FALSE
  /\ done = FALSE
  /\ completed_laps = -1
  /\ csvfile = IF csv_arg THEN NewWriter(0) ELSE NoWriter
  /\ pc = "loop"
  /\ tick = NoTick
  /\ matched = 0
  /\ control = NoControl
  /\ NoScan
  /\ Opened
  /\ files = [lap \in LapFiles |-> IF csv_arg /\ lap = 0 THEN "open" ELSE "unopened"]
  /\ assertion = FALSE
  /\ IdleCarTest

\* the main program of controller.py when it is not run
IdleController ==
  /\ laps = 1
  /\ maxtime = MaxRunTime
  /\ csv_arg = FALSE
  /\ sim_start_time = 0
  /\ last_sim_time = 0
  /\ old_lat_err = 0
  /\ int_err = 0
  /\ finish_wire = FALSE
  /\ stopping_wire = FALSE
  /\ done = FALSE
  /\ completed_laps = -1
  /\ csvfile = NoWriter
  /\ pc = "loop"
  /\ tick = NoTick
  /\ matched = 0
  /\ control = NoControl
  /\ NoScan
  /\ Opened
  /\ files = [lap \in LapFiles |-> "unopened"]
  /\ assertion = FALSE

\* the main programs when only the Car or a Tripwire is exercised
IdleRun == IdleController /\ IdleCarTest

\* lines 216-217: has the run lasted too long
TimedOut(time, limit) == time > limit

\* a lap count that takes the first crossing for a completed lap
LapsAfterCountingStart(tripped, completed) ==
  IF tripped THEN (IF completed < 0 THEN 1 ELSE completed + 1) ELSE completed

\* lines 220-221: completed_laps after the finish wire has been checked
LapsAfter(tripped, completed) ==
  IF tripped THEN completed + 1 ELSE completed

\* a stop decision that wants more laps than the target
StopConditionStrict(tripped, completed, target) ==
  tripped /\ completed > 0 /\ completed > target /\ target # 0

\* a stop decision without the run-forever value of args.laps
StopConditionNoForever(tripped, completed, target) ==
  tripped /\ completed > 0 /\ completed >= target

\* line 233 and line 236: does a trip of the stopping wire end the run
StopCondition(tripped, completed, target) ==
  tripped /\ completed > 0 /\ completed >= target /\ target # 0

\* a rotation that names the new file after the lap that has ended
RotatedToEndedLap(w, enabled, is_done, completed) ==
  IF enabled /\ ~w.none /\ ~is_done THEN NewWriter(completed) ELSE w

\* lines 229-231: the writer after a finish line crossing
Rotated(w, enabled, is_done, completed) ==
  IF enabled /\ ~w.none /\ ~is_done THEN NewWriter(completed + 1) ELSE w

\* the edges of an iteration with these trips
Edges(finish_tripped, stop_tripped) ==
  IF finish_tripped /\ stop_tripped THEN "both"
  ELSE IF finish_tripped THEN "finish"
  ELSE IF stop_tripped THEN "stop"
  ELSE "none"

\* the edge sequence that is followed: one edge per iteration that has any
Scenario == <<"finish", "finish", "stop", "finish", "stop">>

\* matched after an iteration with these edges
Followed(m, edges) ==
  IF edges = "none" THEN m
  ELSE IF m >= 0 /\ m < Len(Scenario) /\ edges = Scenario[m + 1] THEN m + 1
  ELSE -1

\* a stop decision that reads completed_laps as it was before the finish wire
\* was handled
CompletedAtStopStale(before, after) == before

\* line 233 comes after line 221: the completed_laps the stop decision reads,
\* before and after being its values before and after the finish wire was
\* handled
CompletedAtStop(before, after) == after

\* a poll of the stopping wire that is made only once a lap is completed
PollStopAfterALap(last_level, level, completed) ==
  IF completed > 0 THEN CheckTripped(last_level, level)
  ELSE [tripped |-> FALSE, last_state |-> last_level]

\* line 233: stopping_wire.check_tripped() is the first operand of the
\* condition, and so is called whatever completed_laps is
PollStop(last_level, level, completed) == CheckTripped(last_level, level)

\* a handling of the wires that starts the controller afresh on every lap
ControllerResetOnLap(finish_tripped, stop_tripped, c) ==
  IF finish_tripped THEN [c EXCEPT !.old_lat_err = 0, !.int_err = 0] ELSE c

\* lines 219-237: the controller state after the wires have been handled, c
\* being what control_loop has left; nothing there assigns to it
ControllerAfterWires(finish_tripped, stop_tripped, c) == c

\* the points of an iteration at which it may be interrupted: before
\* control_loop has changed anything (0), after line 214 (1), after lines
\* 216-218 (2), after the check of the finish wire at line 220 (3), after
\* lines 221-228 (4), after csvfile.close() at line 230 (5), after the new
\* writer is made and before it is assigned at line 231 (6), after line 231
\* (7), after the check of the stopping wire at line 233 (8), after line 237,
\* in line 240 (9)
InterruptPoints == 0..9

\* the loop body, lines 214-237, up to a point of it: the simulation has
\* advanced by dt, the scan's line position error is line0_err, the finish
\* and stopping sensors read finish_level and stop_level
Body(point, dt, line0_err, finish_level, stop_level) ==
  \E ctl \in {ControlLoop(last_sim_time + dt, line0_err)},
     fin \in {CheckTripped(finish_wire, finish_level)} :
   \E stp \in {PollStop(stopping_wire, stop_level,
                       LapsAfter(fin.tripped, completed_laps))} :
    LET timed_out == TimedOut(ctl.last_sim_time, maxtime)
        done1 == done \/ timed_out
        completed == LapsAfter(fin.tripped, completed_laps)
        writer == IF fin.tripped
                  THEN Rotated(ctl.csvfile, csv_arg, done1, completed)
                  ELSE ctl.csvfile
        rotates == writer # ctl.csvfile
        stopped == StopCondition(stp.tripped,
                                 CompletedAtStop(completed_laps, completed), laps)
        after == ControllerAfterWires(fin.tripped, point >= 8 /\ stp.tripped, ctl)
    IN /\ completed <= MaxLaps
       /\ last_sim_time' = IF point >= 1 THEN ctl.last_sim_time ELSE last_sim_time
       /\ old_lat_err' = IF point >= 4 THEN after.old_lat_err
                         ELSE IF point >= 1 THEN ctl.old_lat_err
                         ELSE old_lat_err
       /\ int_err' = IF point >= 4 THEN after.int_err
                     ELSE IF point >= 1 THEN ctl.int_err
                     ELSE int_err
       /\ steering_state' = IF point >= 1 THEN ctl.steer.ret ELSE steering_state
       /\ wheels' = IF point >= 1 THEN SetSteeringWheels(ctl.steer.ret) ELSE wheels
       /\ steering_limit' = IF point >= 1 THEN ctl.steer.steering_limit
                            ELSE steering_limit
       /\ steering_slew_rate' = IF point >= 1 THEN ctl.steer.steering_slew_rate
                                ELSE steering_slew_rate
       /\ finish_wire' = IF point >= 3 THEN fin.last_state ELSE finish_wire
       /\ completed_laps' = IF point >= 4 THEN completed ELSE completed_laps
       /\ csvfile' = IF point >= 7 THEN writer
                     ELSE IF point >= 5 /\ rotates THEN CloseWriter(ctl.csvfile)
                     ELSE IF point >= 1 THEN ctl.csvfile
                     ELSE csvfile
       /\ files' = IF point >= 6 /\ rotates
                   THEN [files EXCEPT ![ctl.csvfile.lap] = "closed",
                                      ![writer.lap] = "open"]
                   ELSE IF point >= 5 /\ rotates
                   THEN [files EXCEPT ![ctl.csvfile.lap] = "closed"]
                   ELSE files
       /\ stopping_wire' = IF point >= 8 THEN stp.last_state ELSE stopping_wire
       /\ done' = IF point >= 9 THEN done1 \/ stopped
                  ELSE IF point >= 2 THEN done1
                  ELSE done
       /\ tick' = IF point >= 9
                  THEN [finish_tripped |-> fin.tripped,
                        stop_tripped |-> stp.tripped,
                        timed_out |-> timed_out, stopped |-> stopped,
                        lat_err |-> LatErr(line0_err),
                        finish_level |-> finish_level,
                        stop_level |-> stop_level]
                  ELSE tick
       /\ matched' = IF point >= 9
                     THEN Followed(matched, Edges(fin.tripped, stp.tripped))
                     ELSE matched
       /\ UNCHANGED <<laps, maxtime, csv_arg, sim_start_time, last, assertion>>
       /\ UNCHANGED <<twVars, ctlVars, camVars, writerVars, testVars>>

\* one iteration of the loop, lines 213-240
Iteration(dt, line0_err, finish_level, stop_level) ==
  /\ Body(9, dt, line0_err, finish_level, stop_level)
  /\ UNCHANGED pc

\* a loop that does not look at done
LoopContinuesAlways(is_done) == TRUE

\* line 213: while not done
LoopContinues(is_done) == ~is_done

\* an iteration in which the simulation advances by one of dts
TickOver(dts) ==
  /\ pc = "loop"
  /\ LoopContinues(done)
  /\ \E dt \in dts, line0_err \in LineErrs, finish_level \in BOOLEAN,
        stop_level \in BOOLEAN :
       Iteration(dt, line0_err, finish_level, stop_level)

Tick == TickOver(RunDts)

\* an iteration in which the simulation time read is later than the last
TickAdvancing == TickOver(RunDts \ {0})

\* lines 241-245: a KeyboardInterrupt is raised at a point of an iteration
\* and caught
InterruptedTick ==
  /\ pc = "loop"
  /\ LoopContinues(done)
  /\ \E point \in InterruptPoints, dt \in RunDts, line0_err \in LineErrs,
        finish_level \in BOOLEAN, stop_level \in BOOLEAN :
       Body(point, dt, line0_err, finish_level, stop_level)
  /\ pc' = "interrupted"

\* the loop has ended or was interrupted: the finally clause, lines 246-252;
\* close() on a writer that is closed fails its assertion
Finally ==
  /\ \/ pc = "loop" /\ ~LoopContinues(done)
     \/ pc = "interrupted"
  /\ pc' = "ended"
  /\ csvfile' = IF ~csvfile.none /\ csvfile.file THEN CloseWriter(csvfile)
                ELSE csvfile
  /\ files' = IF ~csvfile.none /\ csvfile.file
              THEN [files EXCEPT ![csvfile.lap] = "closed"]
              ELSE files
  /\ assertion' = (~csvfile.none /\ ~csvfile.file)
  /\ UNCHANGED <<laps, maxtime, csv_arg, sim_start_time, last_sim_time,
                 old_lat_err, int_err, finish_wire, stopping_wire, done,
                 completed_laps, tick, matched>>
  /\ UNCHANGED <<carVars, twVars, ctlVars, camVars, writerVars, testVars>>

Next == Tick \/ Finally

----------------------------------------------------------------------------
\* carTest-slew20-line.py: control_loop and the main program

\* the largest args.iterations tried
MaxIterations == 2

CarTestStartTimes == {0, NominalDt, 2 * NominalDt}
CarTestLineErrs == {-MaxLineErr, 0, MaxLineErr}

\* wire.get_tripped(): whether the tripwire is tripped
GetTripped(level) == level

\* control_loop, lines 80-123 and 157: what it leaves and returns, or the
\* attribute whose read raises AttributeError, from the simulation time, the
\* line position error of the scan it reads and the level of the tripwire
CarTestControlLoop(time, line0_err, level) ==
  LET dt == time - car_test_last_sim_time
      lat_err == LatErr(line0_err)
      no_old == dt > 0 /\ car_old_lat_err = Unset
      no_int == car_int_err = Unset
      lat_vel == IF car_old_lat_err = Unset THEN 0
                 ELSE LatVel(lat_err, car_old_lat_err[1], dt)
      int == IF no_int THEN 0 ELSE IntErr(car_int_err[1], dt, lat_err)
      steer_angle == SteerAngle(CarTestGains, lat_err, lat_vel, int)
      c == SetSteeringCall(steering_state, steering_limit, steering_slew_rate,
                           steer_angle, dt)
      raised == IF no_old THEN "car.old_lat_err"
                ELSE IF no_int THEN "car.int_err" ELSE "none"
  IN [raised |-> raised, dt |-> dt, lat_err |-> lat_err,
      last_sim_time |-> time,
      old_lat_err |-> IF no_old THEN car_old_lat_err ELSE <<lat_err>>,
      int_err |-> IF raised = "none" THEN <<int>> ELSE car_int_err,
      steering_state |-> IF raised = "none" THEN c.ret ELSE steering_state,
      steering_limit |-> IF raised = "none" THEN c.steering_limit
                         ELSE steering_limit,
      steering_slew_rate |-> IF raised = "none" THEN c.steering_slew_rate
                             ELSE steering_slew_rate,
      crossed |-> GetTripped(level)]

\* lines 277-281 and 286-287: the edge detector and the count of crossings
CountCrossing(old, cnt, going, crossed) ==
  LET rising == ~old /\ crossed
      old1 == IF rising THEN TRUE ELSE old
      cnt1 == IF rising THEN cnt + 1 ELSE cnt
  IN [oldCrossed |-> IF old1 /\ ~crossed THEN FALSE ELSE old1,
      count |-> cnt1,
      keepGoing |-> IF cnt1 = 2 THEN FALSE ELSE going]

\* the main program up to its loops, lines 184-247 and 271-273
InitCarTest ==
  /\ oneLoop \in BOOLEAN
  /\ iterations \in IF oneLoop THEN {MaxIterations} ELSE 0..MaxIterations
  /\ car_test_last_sim_time \in CarTestStartTimes
  /\ car_old_lat_err = Unset
  /\ car_int_err = Unset
  /\ keepGoing = TRUE
  /\ count = 0
  /\ oldCrossed = FALSE
  /\ loop_i = 0
  /\ test_pc = "loop"
  /\ iter = NoIteration

\* what the call of control_loop that gave r does to the assignment and the
\* car, and what the iteration that made it has seen
ControlLoopCalled(r) ==
  /\ car_test_last_sim_time' = r.last_sim_time
  /\ car_old_lat_err' = r.old_lat_err
  /\ car_int_err' = r.int_err
  /\ steering_state' = r.steering_state
  /\ steering_limit' = r.steering_limit
  /\ steering_slew_rate' = r.steering_slew_rate
  /\ wheels' = IF r.raised = "none" THEN SetSteeringWheels(r.steering_state)
               ELSE wheels
  /\ iter' = [n |-> iter.n + 1, raised |-> r.raised, dt |-> r.dt,
              lat_err |-> r.lat_err, returned |-> r.raised = "none",
              crossed |-> r.crossed,
              flag |-> IF r.raised = "none" THEN r.crossed ELSE iter.flag,
              transitions |-> IF r.raised = "none" /\ r.crossed /\ ~iter.flag
                              THEN iter.transitions + 1
                              ELSE iter.transitions]
  /\ UNCHANGED <<last, oneLoop, iterations>>
  /\ UNCHANGED <<twVars, runVars, ctlVars, camVars, fileVars, writerVars>>

\* lines 274-287: an iteration of the while loop; an AttributeError is not
\* caught at line 296 and ends the program
OneLoopIteration ==
  /\ test_pc = "loop"
  /\ oneLoop
  /\ keepGoing
  /\ iter.n < MaxTicks
  /\ \E dt \in ControlDts, line0_err \in CarTestLineErrs, level \in BOOLEAN :
       \E r \in {CarTestControlLoop(car_test_last_sim_time + dt, line0_err, level)} :
         \E k \in {CountCrossing(oldCrossed, count, keepGoing, r.crossed)} :
           /\ ControlLoopCalled(r)
           /\ oldCrossed' = IF r.raised = "none" THEN k.oldCrossed ELSE oldCrossed
           /\ count' = IF r.raised = "none" THEN k.count ELSE count
           /\ keepGoing' = IF r.raised = "none" THEN k.keepGoing ELSE keepGoing
           /\ test_pc' = IF r.raised = "none" THEN "loop" ELSE "raised"
           /\ UNCHANGED loop_i

\* lines 249-255: an iteration of the for loop; an AttributeError is not
\* caught at line 264 and ends the program
ForIteration ==
  /\ test_pc = "loop"
  /\ ~oneLoop
  /\ loop_i < iterations
  /\ \E dt \in ControlDts, line0_err \in CarTestLineErrs, level \in BOOLEAN :
       \E r \in {CarTestControlLoop(car_test_last_sim_time + dt, line0_err, level)} :
         /\ ControlLoopCalled(r)
         /\ loop_i' = IF r.raised = "none" THEN loop_i + 1 ELSE loop_i
         /\ test_pc' = IF r.raised = "none" THEN "loop" ELSE "raised"
         /\ UNCHANGED <<oldCrossed, count, keepGoing>>

\* lines 257-263 and 289-294: the loop is over, the simulation is paused or
\* stopped and the files are closed
Finished ==
  /\ test_pc = "loop"
  /\ \/ oneLoop /\ ~keepGoing
     \/ ~oneLoop /\ loop_i = iterations
  /\ test_pc' = "stopped"
  /\ UNCHANGED <<oneLoop, iterations, car_test_last_sim_time, car_old_lat_err,
                 car_int_err, keepGoing, count, oldCrossed, loop_i, iter>>
  /\ UNCHANGED <<carVars, twVars, runVars, ctlVars, camVars, fileVars, writerVars>>

NextCarTest == OneLoopIteration \/ ForIteration \/ Finished

----------------------------------------------------------------------------
\* The specifications

\* the main program of controller.py, which makes its car with Car(vr)
Init == Constructed(ValidLimit, DefaultSlewRate) /\ InitTripwire /\ InitRun
Spec == Init /\ [][Next]_vars

\* calls on a Car
InitOfCar == InitCar /\ InitTripwire /\ IdleRun
SpecCar == InitOfCar /\ [][NextCar]_vars

\* polls of a Tripwire
InitOfTripwire == Constructed(ValidLimit, DefaultSlewRate) /\ InitTripwire /\ IdleRun
SpecTripwire == InitOfTripwire /\ [][NextTripwire]_vars

\* the main program with a simulation time that advances in every iteration;
\* the loop goes on iterating while it may, and the finally clause is run
NextAdvancing == TickAdvancing \/ Finally
SpecAdvancing ==
  /\ Init
  /\ [][NextAdvancing]_vars
  /\ WF_vars(TickAdvancing)
  /\ WF_vars(Finally)

\* the main program with a KeyboardInterrupt at any point of an iteration
NextInterrupted == Tick \/ InterruptedTick \/ Finally
SpecInterrupted == Init /\ [][NextInterrupted]_vars

\* a Car steered with any commands and then, from some call on, with one
\* command and dts above 0; the caller goes on calling
SpecHolding == InitOfCar /\ [][NextHolding]_vars /\ WF_vars(HoldSteering)

\* calls on one SimpleCsvDictWriter
InitOfWriter == Constructed(ValidLimit, DefaultSlewRate) /\ InitTripwire /\ IdleRun
SpecWriter == InitOfWriter /\ [][NextWriter]_vars

\* calls of control_loop alone, on the car the main program makes
InitOfControl == Constructed(ValidLimit, DefaultSlewRate) /\ InitTripwire /\ IdleRun
SpecControl == InitOfControl /\ [][NextControl]_vars

\* scans read one after another
InitOfCamera == Constructed(ValidLimit, DefaultSlewRate) /\ InitTripwire /\ IdleRun
SpecCamera == InitOfCamera /\ [][NextCamera]_vars

\* the main program of carTest-slew20-line.py, which makes its car with Car(vr)
InitOfCarTest ==
  Constructed(ValidLimit, DefaultSlewRate) /\ InitTripwire /\ IdleController
    /\ InitCarTest
SpecCarTest == InitOfCarTest /\ [][NextCarTest]_vars

----------------------------------------------------------------------------
\* Properties of the Car steering actuator (SpecCar)

SteerOps == {"set_steering", "set_steering_fast"}

\* clamp of x to [lo, hi], written out independently of the model's operators
Clamp(x, lo, hi) == IF x < lo THEN lo ELSE IF x > hi THEN hi ELSE x

\* C1: after construction and after every set_steering / set_steering_fast
\* call, whatever the command and dt, the stored steering state and the
\* returned angle are within 30 degrees of centre.
C1_SteeringWithinLimit ==
  /\ Abs(steering_state) <= Deg(30)
  /\ last.op \in SteerOps => Abs(last.ret) <= Deg(30) /\ steering_state = last.ret

\* a call whose rate-limited angle lay beyond +30 degrees and was cut to 30
C1_Witness ==
  /\ last.op = "set_steering"
  /\ last.dt_arg > 0
  /\ last.angle_cmd > Deg(30)
  /\ last.before + last.max_angle_change > Deg(30)
  /\ steering_state = Deg(30)

\* C2: a set_steering call with dt > 0 returns an angle that differs from the
\* steering state held before the call by at most dt * slew rate.
C2_SlewBound ==
  (last.op = "set_steering" /\ last.dt_arg > 0)
    => Abs(last.ret - last.before) <= last.dt_arg * DegPerSec(3750)

\* a call whose command lay further away than the allowance, and which moved
\* the angle by exactly the allowance
C2_Witness ==
  /\ last.op = "set_steering"
  /\ last.dt_arg > 0
  /\ Abs(last.angle_cmd - last.before) > last.dt_arg * DegPerSec(3750)
  /\ Abs(last.ret - last.before) = last.dt_arg * DegPerSec(3750)

\* C8: set_steering_fast applies no rate limit: it returns the command
\* clamped to [-30, 30] degrees, whatever the previous steering state was
\* (stated for the calls with dt > 0, which are among those of the claim).
C8_FastIsUnlimited ==
  (last.op = "set_steering_fast" /\ last.dt_arg > 0)
    => last.ret = Clamp(last.angle_cmd, -Deg(30), Deg(30))

C10_HighDtReplaced ==
  last.op = "set_steering" =>
    /\ last.dt_arg > 11 => last.max_angle_change = 10 * DegPerSec(3750)
    /\ last.dt_arg <= 11 => last.max_angle_change = last.dt_arg * DegPerSec(3750)
    /\ last.dt_arg >= 0 => Abs(last.ret - last.before) <= 11 * DegPerSec(3750)

\* a stalled tick (50 ms) whose command lay 60 degrees away and which moved
\* the angle by exactly 10 ms * slew rate
C10_Witness ==
  /\ last.op = "set_steering"
  /\ last.dt_arg = 50
  /\ Abs(last.angle_cmd - last.before) >= Deg(60)
  /\ Abs(last.ret - last.before) = 10 * DegPerSec(3750)

----------------------------------------------------------------------------
\* Properties of the run loop (Spec)

\* C3: with args.laps = 1 and the edges finish, finish, stop, finish, stop (one
\* per iteration that has an edge), as the code has it: the run is done on the
\* first stop edge, the third edge, and not before unless by timeout, with
\* completed_laps = 1; the fourth and fifth edge are never read; and
\* completed_laps never decreases.
C3_DoneOnFirstStop ==
  /\ [](laps = 1 =>
          /\ (matched \in {0, 1, 2} /\ ~tick.timed_out) => ~done
          /\ matched = 3 => (done /\ tick.stopped /\ completed_laps = 1)
          /\ matched \notin {4, 5})
  /\ [][completed_laps' >= completed_laps]_vars

\* the run has ended on the first stop edge of the scenario, not by timeout
C3_Witness ==
  /\ laps = 1
  /\ matched = 3
  /\ ~tick.timed_out
  /\ done
  /\ completed_laps = 1

\* C3 as claimed: with args.laps = 1 the run is not done before the second
\* stop edge, the fifth edge of the scenario.
C3_NotDoneBeforeSecondStop ==
  (laps = 1 /\ matched \in 0..4 /\ ~tick.timed_out) => ~done

\* C4: completed_laps starts at -1; a step in which the finish sensor's level
\* rises adds exactly 1 to it, and every other step leaves it as it is.
C4_LapsCountFinishEdges ==
  /\ completed_laps = -1
  /\ [][completed_laps' = completed_laps
                           + (IF ~finish_wire /\ finish_wire' THEN 1 ELSE 0)]_vars

\* the second finish edge has been counted: one completed lap
C4_Witness ==
  /\ tick.finish_tripped
  /\ completed_laps = 1

\* C5: the stop decision sets done in an iteration exactly when the stopping
\* wire tripped in it and completed_laps > 0 and completed_laps >= args.laps
\* and args.laps # 0; done is set by it or by the timeout, and by nothing else.
C5_StopDecision ==
  /\ tick.stopped <=> (/\ tick.stop_tripped
                       /\ completed_laps > 0
                       /\ completed_laps >= laps
                       /\ laps # 0)
  /\ done <=> (tick.stopped \/ tick.timed_out)

\* a stop edge after two laps of two has ended the run
C5_Witness ==
  /\ laps = 2
  /\ completed_laps = 2
  /\ tick.stop_tripped
  /\ ~tick.timed_out
  /\ done

\* C6: with args.laps = 0 the stop decision never sets done; the run stays in
\* the loop until the timeout ends it.
C6_ZeroLapsRunsForever ==
  laps = 0 =>
    /\ ~tick.stopped
    /\ done => tick.timed_out
    /\ ~tick.timed_out => (~done /\ pc = "loop")

\* a stop edge after a completed lap has not ended the run
C6_Witness ==
  /\ laps = 0
  /\ completed_laps >= 1
  /\ tick.stop_tripped
  /\ ~done

----------------------------------------------------------------------------
\* Properties of the Tripwire (SpecTripwire)

\* the level read on the poll before poll i, FALSE before the first poll
LevelBefore(i) == IF i = 1 THEN FALSE ELSE levels[i - 1]

\* does sequence p start sequence s
IsPrefix(p, s) == Len(p) <= Len(s) /\ \A i \in 1..Len(p) : p[i] = s[i]

\* C7: check_tripped returns true on a poll exactly when the level read on
\* that poll is true and the level read on the poll before was false; the
\* levels false, true, true, false, true give events on the second and the
\* fifth poll only.
C7_RisingEdgeOnly ==
  /\ Len(events) = Len(levels)
  /\ \A i \in 1..Len(events) : events[i] = (levels[i] /\ ~LevelBefore(i))
  /\ IsPrefix(<<FALSE, TRUE, TRUE, FALSE, TRUE>>, levels)
       => IsPrefix(<<FALSE, TRUE, FALSE, FALSE, TRUE>>, events)
  /\ last_state = (IF levels = <<>> THEN FALSE ELSE levels[Len(levels)])

\* the five polls of the example have been made
C7_Witness ==
  /\ levels = <<FALSE, TRUE, TRUE, FALSE, TRUE>>
  /\ events = <<FALSE, TRUE, FALSE, FALSE, TRUE>>

----------------------------------------------------------------------------
\* The control law (SpecControl)

\* C11: every control tick asks for the steering angle
\* -(Kp * lateral error) - (Kd * derivative) - (Ki * integral), the derivative
\* being (lateral error - previous error) / dt for dt > 0 and 0 otherwise and
\* the integral the one the tick has updated.  Multiplied out to integers: an
\* angle unit is 1/160 degree, a lateral unit 1/1280 m, dt and the integral's
\* time are in ms.  With
\* gains 200, 0, 0, previous error 0, lateral error 0.1 m and dt 0.01 s the
\* angle is -20 degrees; with gains 200, 20, 0, previous error 0.1 m, lateral
\* error 0 and dt 0.01 s it is +200 degrees.
C11_SteeringLaw ==
  control.n > 0 =>
    LET g == control.gains
        lat == control.lat_err
    IN /\ IF control.dt > 0
          THEN control.target * 8 * control.dt
                 = -(g.kp * lat * control.dt)
                   - (g.kd * (lat - control.old) * 1000)
                   - ((g.ki * int_err * control.dt) \div 1000)
          ELSE control.target * 8
                 = -(g.kp * lat) - ((g.ki * int_err) \div 1000)
       /\ (g = [kp |-> 200, kd |-> 0, ki |-> 0] /\ control.old = 0 /\ lat = 128
             /\ control.dt = 10)
          => control.target = -Deg(20)
       /\ (g = [kp |-> 200, kd |-> 20, ki |-> 0] /\ control.old = 128 /\ lat = 0
             /\ control.dt = 10)
          => control.target = Deg(200)

\* the second tick of the example: gains 200, 20, 0, the error back to 0 from 0.1 m
C11_Witness ==
  /\ control.n = 2
  /\ control.gains = [kp |-> 200, kd |-> 20, ki |-> 0]
  /\ control.old = 128 /\ control.lat_err = 0 /\ control.dt = 10
  /\ control.target = Deg(200)

\* C12: the derivative of a tick is (lateral error - previous error) / dt when
\* dt > 0 and exactly 0 when dt <= 0, and after every tick, those with dt <= 0
\* included, the previous lateral error is the tick's lateral error.
C12_Derivative ==
  control.n > 0 =>
    /\ control.dt > 0
       => control.lat_vel * control.dt = (control.lat_err - control.old) * 1000
    /\ control.dt <= 0 => control.lat_vel = 0
    /\ old_lat_err = control.lat_err

\* a tick with the simulation time gone back and the error changed
C12_Witness ==
  /\ control.n > 0 /\ control.dt < 0
  /\ control.lat_err # control.old
  /\ old_lat_err = control.lat_err

\* C13: after every tick the integral is the integral before plus
\* dt * lateral error, whatever its size; with dt > 0 and a nonzero lateral
\* error on the side the integral is on, its magnitude has grown.
C13_IntegralAccumulates ==
  control.n > 0 =>
    /\ int_err = control.int_before + control.dt * control.lat_err
    /\ (control.dt > 0 /\ control.lat_err # 0
          /\ control.int_before * control.lat_err >= 0)
       => Abs(int_err) > Abs(control.int_before)

\* three ticks of 0.01 s with the error 0.1 m throughout
C13_Witness ==
  /\ control.n = 3 /\ control.dt = 10 /\ control.lat_err = 128
  /\ control.int_before = 2560
  /\ int_err = 3840

----------------------------------------------------------------------------
\* The line camera (SpecCamera)

\* the indices (from 0) of the samples of the scan above 192
BrightIndices == {i \in 0..(Len(image) - 1) : image[i + 1] > 192}

RECURSIVE SumOf(_)
SumOf(S) == IF S = {} THEN 0 ELSE LET x == CHOOSE x \in S : TRUE
                                  IN x + SumOf(S \ {x})

\* C14: for every scan with no sample strictly above 192 (the empty scan and
\* the scan of samples all 192 included) the error returned is exactly 0,
\* and no division by 0 is made.
C14_NoLineIsZero ==
  line_err.read =>
    /\ line_err.den # 0
    /\ BrightIndices = {} => (line_err.num = 0 /\ line_err.den = 1)

\* a scan of three samples, all 192
C14_Witness ==
  /\ line_err.read
  /\ Len(image) = 3 /\ \A i \in 1..3 : image[i] = 192
  /\ line_err.num = 0

\* C15: for every scan with a sample above 192 the error returned is
\* (sum of the indices of the samples above 192) / (their number) - 63; one
\* bright sample at index i gives i - 63; samples of 192 do not count.
C15_Centroid ==
  (line_err.read /\ BrightIndices # {}) =>
    LET bright == Cardinality(BrightIndices)
    IN /\ line_err.den > 0
       /\ line_err.num * bright
            = (SumOf(BrightIndices) - 63 * bright) * line_err.den
       /\ \A i \in BrightIndices :
            BrightIndices = {i} => line_err.num = (i - 63) * line_err.den

\* one bright sample, at index 2, after a sample of 192: the error is -61
C15_Witness ==
  /\ line_err.read
  /\ BrightIndices = {2}
  /\ image[2] = 192
  /\ line_err.num = -61 /\ line_err.den = 1

\* C16: of raw samples in -128..255, get_line_camera_image returns as many
\* samples, each in 0..255: s + 256 for a negative s, s itself otherwise.
C16_ImageInRange ==
  /\ Len(image) = Len(raw)
  /\ \A i \in 1..Len(raw) :
       /\ image[i] \in 0..255
       /\ raw[i] < 0 => image[i] = raw[i] + 256
       /\ raw[i] >= 0 => image[i] = raw[i]

\* a scan with the samples -128 and 0 and 255
C16_Witness ==
  /\ line_err.read
  /\ \E i, j, k \in 1..Len(raw) :
       /\ raw[i] = -128 /\ image[i] = 128
       /\ raw[j] = 0 /\ image[j] = 0
       /\ raw[k] = 255 /\ image[k] = 255

----------------------------------------------------------------------------
\* Idempotence of set_steering (SpecCar)

\* C17 as stated: whenever set_steering is called with the angle the steering
\* is at, for any dt, it returns that angle and the steering stays there.
C17_IdempotentForAnyDt ==
  (last.op = "set_steering" /\ last.angle_cmd = last.before)
    => (last.ret = last.before /\ steering_state = last.before)

\* C17, amended: whenever set_steering is called with the angle the steering
\* is at and a dt >= 0, it returns that angle and the steering stays there;
\* so it does however often the call is repeated.
C17_Idempotent ==
  (last.op = "set_steering" /\ last.angle_cmd = last.before /\ last.dt_arg >= 0)
    => (last.ret = last.before /\ steering_state = last.before)

\* the steering is off centre, and is commanded to where it is with a dt
\* above the one that is replaced
C17_Witness ==
  /\ last.op = "set_steering"
  /\ last.before # 0 /\ last.angle_cmd = last.before
  /\ last.dt_arg > HighDt
  /\ steering_state = last.before

----------------------------------------------------------------------------
\* Termination of the run loop (SpecAdvancing)

\* C18: with a simulation time that advances in every iteration the program
\* gets out of the loop and through the finally clause, whatever args.laps
\* (0 included) and whatever the edges; and once done is set no control tick
\* is made: time, controller state and steering stay as they are.
C18_LoopTerminates ==
  /\ <>(pc = "ended")
  /\ [][done => UNCHANGED <<last_sim_time, old_lat_err, int_err,
                            steering_state>>]_vars

\* a run with args.laps = 0 that has ended, on the run time
C18_Witness ==
  /\ pc = "ended" /\ laps = 0
  /\ done /\ tick.timed_out /\ ~tick.stopped
  /\ completed_laps >= 1

----------------------------------------------------------------------------
\* Interruption of the run loop (SpecInterrupted)

\* C19 as stated: when the program has ended, interrupted at whatever point
\* of an iteration, every csv file that was opened is closed, and no close()
\* has failed its assertion, so that each writer was closed exactly once.
C19_WritersClosedOnce ==
  pc = "ended" =>
    /\ ~assertion
    /\ \A lap \in LapFiles : files[lap] # "open"

----------------------------------------------------------------------------
\* The controller state and the lap events (Spec)

\* C20: the previous lateral error and the integral error are 0 when the
\* session starts; after an iteration, whatever edges of the finish and the
\* stopping wire it had, they are what its control tick alone makes them: the
\* lateral error of the tick, and the integral before plus dt times that
\* error; the end of the run leaves them alone.
C20_LapEventsLeaveController ==
  /\ old_lat_err = 0 /\ int_err = 0
  /\ [][/\ pc' = "loop"
           => /\ old_lat_err' = tick'.lat_err
              /\ int_err' = int_err
                              + (last_sim_time' - last_sim_time) * tick'.lat_err
        /\ pc' = "ended"
           => /\ old_lat_err' = old_lat_err
              /\ int_err' = int_err]_vars

\* an iteration in which a lap is completed and the stopping wire trips, with
\* an error on the line and an integral that are not 0 after it
C20_Witness ==
  /\ tick.finish_tripped /\ tick.stop_tripped
  /\ completed_laps >= 1
  /\ old_lat_err # 0 /\ int_err # 0

----------------------------------------------------------------------------
\* The Ackermann mapping (SpecCar)

\* C21: after a steering call, when the realized angle is exactly 0 both
\* joints are sent exactly 0, and otherwise the left joint is sent
\* atan(1 / (-w + 1/tan(angle))) and the right one atan(1 / (w + 1/tan(angle)))
\* of the realized angle; nothing sent divides by tan(0).
C21_AckermannMapping ==
  last.op \in SteerOps =>
    /\ wheels.angle_deg = last.ret
    /\ last.ret = 0 => (wheels.left = Exactly0 /\ wheels.right = Exactly0)
    /\ last.ret # 0
       => /\ wheels.left = [atan |-> TRUE, w |-> -1, tan_of |-> last.ret]
          /\ wheels.right = [atan |-> TRUE, w |-> 1, tan_of |-> last.ret]
    /\ \A joint \in {wheels.left, wheels.right} : ~(joint.atan /\ joint.tan_of = 0)

\* the steering is brought back from an angle to exactly 0
C21_Witness ==
  /\ last.op = "set_steering"
  /\ last.before # 0 /\ last.ret = 0
  /\ wheels.left = Exactly0 /\ wheels.right = Exactly0

----------------------------------------------------------------------------
\* The csv writer (SpecWriter)

\* C22: closed is absorbing: a writerow() or close() made on a closed writer
\* fails its assertion, writes nothing and leaves the writer closed; and a
\* closed writer has no DictWriter.
C22_ClosedIsAbsorbing ==
  /\ wlast.closed_before
     => /\ wlast.failed
        /\ Len(out) = wlast.lines_before
        /\ ~csv_writer.file
  /\ ~csv_writer.file => ~csv_writer.csv

\* a row is refused after a close that was refused after a close
C22_Witness ==
  /\ wlast.op = "writerow" /\ wlast.closed_before /\ wlast.failed
  /\ Len(out) >= 2
  /\ ~csv_writer.file

\* C23: the file of a writer has one header, as its first line, the first
\* data row follows it, and every data row has the field names of the
\* header; a writerow whose keys differ from those of the first row fails its
\* assertion and writes nothing.
C23_HeaderOnceSameFields ==
  /\ out # <<>>
     => /\ out[1].header
        /\ Len(out) >= 2
        /\ \A i \in 2..Len(out) : ~out[i].header /\ out[i].keys = out[1].keys
  /\ (wlast.op = "writerow" /\ wlast.fieldnames_before # <<>>
        /\ <<wlast.keys>> # wlast.fieldnames_before)
     => (wlast.failed /\ Len(out) = wlast.lines_before)
  /\ (wlast.op = "writerow" /\ ~wlast.failed /\ wlast.lines_before = 0)
     => Len(out) = 2

\* a row with other keys is refused after two rows were written
C23_Witness ==
  /\ wlast.op = "writerow" /\ wlast.failed /\ ~wlast.closed_before
  /\ Len(out) = 3
  /\ wlast.keys # out[1].keys

----------------------------------------------------------------------------
\* What set_steering realizes (SpecCar)

\* the angle realized from state for a command, with the window of dt
Realized(angle_cmd, state, dt) ==
  Clamp(Clamp(angle_cmd, state - dt * ValidSlewRate, state + dt * ValidSlewRate),
        -ValidLimit, ValidLimit)

\* C24 as stated: for dt > 0 set_steering returns, stores and dispatches
\* clamp(clamp(angle_cmd, state - dt*slew, state + dt*slew), -limit, +limit)
\* with the dt it was called with.
C24_RealizedWithCallersDt ==
  (last.op = "set_steering" /\ last.dt_arg > 0)
    => LET angle == Realized(last.angle_cmd, last.before, last.dt_arg)
       IN /\ last.ret = angle
          /\ steering_state = angle
          /\ wheels.angle_deg = angle

\* C24, amended: for dt > 0 set_steering returns, stores and dispatches
\* clamp(clamp(angle_cmd, state - dt*slew, state + dt*slew), -limit, +limit)
\* where a dt above 0.011 s counts as 0.01 s; a command within that window
\* and the limits is realized exactly; get_steering_angle then returns the
\* same value.
C24_Realized ==
  (last.op = "set_steering" /\ last.dt_arg > 0)
    => LET dt == IF last.dt_arg > 11 THEN 10 ELSE last.dt_arg
           angle == Realized(last.angle_cmd, last.before, dt)
       IN /\ last.ret = angle
          /\ steering_state = angle
          /\ wheels.angle_deg = angle
          /\ GetSteeringAngle = last.ret
          /\ (/\ Abs(last.angle_cmd - last.before) <= dt * ValidSlewRate
              /\ Abs(last.angle_cmd) <= ValidLimit)
             => last.ret = last.angle_cmd

\* a call with a dt above 0.011 s whose command is beyond the window of
\* 0.01 s: the steering has moved by 37.5 degrees
C24_Witness ==
  /\ last.op = "set_steering"
  /\ last.dt_arg > HighDt
  /\ last.angle_cmd > last.before + NominalDt * ValidSlewRate
  /\ steering_state = last.before + NominalDt * ValidSlewRate
  /\ wheels.angle_deg = steering_state

----------------------------------------------------------------------------
\* Log rotation (Spec)

\* C25: with logging enabled, after every iteration that leaves the run not
\* done, csvfile is an open writer, that of index completed_laps + 1 (0 before
\* the first finish edge); its file is the only one open, the files of the
\* indices before it have been closed, no close() has failed, and the next
\* row finds its writer open.  Without logging no file is ever opened.
C25_OneWriterPerLap ==
  /\ ~assertion
  /\ (csv_arg /\ pc = "loop" /\ ~done)
     => /\ ~csvfile.none /\ csvfile.file
        /\ csvfile.lap = completed_laps + 1
        /\ \A lap \in LapFiles :
             files[lap] = IF lap = completed_laps + 1 THEN "open"
                          ELSE IF lap <= completed_laps THEN "closed"
                          ELSE "unopened"
  /\ ~csv_arg => (csvfile.none /\ \A lap \in LapFiles : files[lap] = "unopened")
  /\ (~csvfile.none /\ csvfile.csv) => csvfile.file

\* the second lap has been started: the files of lap 0 and 1 are closed, that
\* of lap 2 is open and has a row
C25_Witness ==
  /\ csv_arg /\ pc = "loop" /\ ~done
  /\ completed_laps = 1
  /\ csvfile.lap = 2 /\ csvfile.file /\ csvfile.csv
  /\ files[0] = "closed" /\ files[1] = "closed" /\ files[2] = "open"

----------------------------------------------------------------------------
\* The timeout (Spec)

\* C26 as stated: an iteration ends the run by timeout only when the
\* simulation time has reached the session's start time plus args.maxtime.
C26_TimeoutFromSessionStart ==
  (tick.timed_out /\ done) => last_sim_time >= sim_start_time + maxtime

----------------------------------------------------------------------------
\* Pixels to metres (SpecCamera)

\* C27 as stated: the lateral error is -(pixel error) * 0.7 m / 64.  In
\* lateral units of 1/1280 m, 0.7 m is 896.
C27_ScaleByHalfWidth ==
  line_err.read =>
    /\ cam_lat_err.den = line_err.den
    /\ cam_lat_err.num * 64 = -(line_err.num * 896)

\* C27, amended: the lateral error is -(pixel error) * 0.7 m / 128, a pure
\* scale; a pixel error of 64 gives a lateral error of magnitude 0.35 m
\* (448 lateral units).
C27_ScaleByWidth ==
  line_err.read =>
    /\ cam_lat_err.den = line_err.den
    /\ cam_lat_err.num * 128 = -(line_err.num * 896)
    /\ line_err.num = 64 * line_err.den
       => cam_lat_err.num = -448 * cam_lat_err.den

\* a scan of 128 samples with the only bright one at index 127: the pixel
\* error is 64
C27_Witness ==
  /\ line_err.read
  /\ Len(image) = 128 /\ BrightIndices = {127}
  /\ line_err.num = 64 /\ line_err.den = 1
  /\ cam_lat_err.num = -448

----------------------------------------------------------------------------
\* The order and the polling of the wires (Spec)

\* C28: an iteration in which both wires trip and which brings completed_laps
\* from args.laps - 1 >= 0 to args.laps (args.laps # 0) ends the run: the lap
\* of the iteration is counted when the stop decision is made.
C28_FinishBeforeStop ==
  (/\ tick.finish_tripped /\ tick.stop_tripped
   /\ laps # 0
   /\ completed_laps = laps /\ completed_laps - 1 >= 0)
    => (tick.stopped /\ done)

\* both wires trip in the iteration that completes the second lap of two, and
\* the run has not timed out
C28_Witness ==
  /\ tick.finish_tripped /\ tick.stop_tripped
  /\ laps = 2 /\ completed_laps = 2
  /\ ~tick.timed_out
  /\ tick.stopped /\ done

\* C29: every iteration polls both wires, whatever the laps: each wire's
\* last state is the level of the iteration, and a wire has tripped exactly
\* when its level is high and was low the iteration before.  So a stop edge
\* that comes while the stop condition is not met is used up; the stop
\* decision ends the run only in an iteration in which the stopping wire
\* rises anew while the condition holds.
C29_StopEdgeConsumed ==
  [][pc' = "loop"
       => /\ finish_wire' = tick'.finish_level
          /\ stopping_wire' = tick'.stop_level
          /\ tick'.finish_tripped = (~finish_wire /\ tick'.finish_level)
          /\ tick'.stop_tripped = (~stopping_wire /\ tick'.stop_level)
          /\ (done' /\ ~tick'.timed_out)
             => /\ ~stopping_wire /\ tick'.stop_level
                /\ completed_laps' > 0
                /\ completed_laps' >= laps
                /\ laps # 0]_vars

\* the stopping wire has risen after one lap of two: the edge is used up and
\* the run goes on
C29_Witness ==
  /\ tick.stop_tripped /\ stopping_wire
  /\ laps = 2 /\ completed_laps = 1
  /\ ~tick.stopped /\ ~done /\ pc = "loop"

----------------------------------------------------------------------------
\* Convergence of the steering (SpecHolding)

\* C30: while set_steering is called again and again with one command and
\* dts above 0, the steering moves towards the command clamped to the limit,
\* never past it and never away from it, and from some call on it is there
\* and stays there.
C30_Converges ==
  /\ <>[](steering_state = Clamp(last.angle_cmd, -ValidLimit, ValidLimit))
  /\ [][last'.op = "hold"
          => LET target == Clamp(last'.angle_cmd, -ValidLimit, ValidLimit)
             IN /\ steering_state <= target
                   => (steering_state <= steering_state' /\ steering_state' <= target)
                /\ steering_state >= target
                   => (target <= steering_state' /\ steering_state' <= steering_state)]_vars

\* a command beyond the limit is held from the other limit: the steering has
\* got to the limit after more than one call and the last call has left it there
C30_Witness ==
  /\ last.op = "hold"
  /\ last.angle_cmd > ValidLimit
  /\ last.before = ValidLimit /\ steering_state = ValidLimit

----------------------------------------------------------------------------
\* The controller with one tripwire (SpecCarTest)

\* C31: in every variant of the controller the previous lateral error and the
\* integral error are set to 0 before the first call of control_loop, and
\* that call reads no attribute that is not set and raises no error.
C31_FirstTickReadsInitialisedState ==
  /\ (pc = "loop" /\ tick = NoTick) => (old_lat_err = 0 /\ int_err = 0)
  /\ (test_pc = "loop" /\ iter.n = 0)
       => (car_old_lat_err = <<0>> /\ car_int_err = <<0>>)
  /\ iter.n = 1 => iter.raised = "none"

\* C32: in one-loop mode count is the number of low-to-high transitions of
\* the flag control_loop has returned; the loop goes on while there were
\* fewer than two, and it is over, at the end of the iteration that saw the
\* second, only when there were two.
C32_StopsAtSecondTransition ==
  (oneLoop /\ test_pc # "idle")
    => /\ count = iter.transitions
       /\ (test_pc = "loop" /\ keepGoing) => iter.transitions < 2
       /\ (test_pc # "loop" \/ ~keepGoing) => iter.transitions = 2

====
